---- MODULE Spec2Model ----
(***************************************************************************)
(* Model of the survey dashboards of nurulaina02/EC2024:                   *)
(*   src/mentalhealth.py  load_data (label mappings, predicate flag, two   *)
(*                        binnings) and the aggregations of its three tabs *)
(*   src/app.py           load_data, the arts_df fallback and the five     *)
(*                        chart sections                                   *)
(* A cell of a data frame is an optional value: NaN == <<>> is the missing *)
(* value, <<v>> is the value v.  Measured quantities (scores, hours) are   *)
(* counted in halves, H(4) being 4.0 and H(4) + 1 being 4.5, so that the   *)
(* values between two integer bin edges exist in the model.                *)
(***************************************************************************)
EXTENDS Integers, Sequences, FiniteSets, TLC

VARIABLES
    script,     \* the script that is run: "mentalhealth.py" or "app.py"
    source,     \* the CSV source the script reads
    pc,         \* position of the script
    df,         \* the module-level df (the value load_data returned)
    arts_df,    \* app.py: the frame of the gender charts
    tried,      \* the encodings read_csv was called with, in order
    exc,        \* the exception that ended the run ("" while none)
    errors,     \* the st.error / st.warning / st.info notices shown so far
    page,       \* the chart data shown so far: chart id -> data
    pending     \* derivation steps not yet applied (step-order specification)

vars == <<script, source, pc, df, arts_df, tried, exc, errors, page, pending>>

-----------------------------------------------------------------------------
(* Bounds of the model *)

MaxRows == 2        \* rows of a dataset
MaxVal == 11        \* largest measured value (in whole units) of the grid
MaxCode == 5        \* largest category code of a coded column

-----------------------------------------------------------------------------
(* Values, series and frames *)

NaN == <<>>
H(n) == 2 * n
isna(x) == x = NaN

\* A data frame: n rows, col maps each column name to its n cells.
NoFrame == [n |-> 0, col |-> <<>>]
columns(d) == DOMAIN d.col
setitem(d, name, vals) == [n |-> d.n, col |-> (name :> vals) @@ d.col]

\* Series.map(dict): a cell whose value is no key of the dict (or is missing)
\* becomes NaN.
map(s, M) ==
    [i \in DOMAIN s |->
        IF ~isna(s[i]) /\ s[i][1] \in DOMAIN M THEN <<M[s[i][1]]>> ELSE NaN]

\* (mutant) the default label is never filled in
fillna_skipped(s, v) == s

\* Series.fillna(value)
fillna(s, v) == [i \in DOMAIN s |-> IF isna(s[i]) THEN <<v>> ELSE s[i]]

\* Series.max(): missing cells are skipped; NaN when no cell has a value.
max(s) ==
    LET present == {s[i][1] : i \in {j \in DOMAIN s : ~isna(s[j])}}
    IN IF present = {} THEN NaN
       ELSE <<CHOOSE m \in present : \A v \in present : v <= m>>

-----------------------------------------------------------------------------
(* pandas.cut(x, bins, labels, right=True, include_lowest=True), as          *)
(* load_data calls it.  An edge is a cell too: max_sleep is NaN when no row  *)
(* has a Sleep_Hours value.                                                  *)

\* (mutant) a missing edge is not noticed
is_monotonic_increasing_nan_blind(bins) ==
    \A j \in DOMAIN bins :
        (j > 1 /\ ~isna(bins[j - 1]) /\ ~isna(bins[j])) => bins[j - 1][1] <= bins[j][1]

\* Index(bins).is_monotonic_increasing: no edge is missing and none is
\* smaller than the edge before it.
is_monotonic_increasing(bins) ==
    /\ \A j \in DOMAIN bins : ~isna(bins[j])
    /\ \A j \in DOMAIN bins : j > 1 => bins[j - 1][1] <= bins[j][1]

\* The three checks of pandas.cut, in its order; "" when the call is accepted.
cut_error(bins, labels) ==
    IF ~is_monotonic_increasing(bins)
    THEN "ValueError: bins must increase monotonically."
    ELSE IF Cardinality({bins[j] : j \in DOMAIN bins}) < Len(bins) /\ Len(bins) # 2
    THEN "ValueError: Bin edges must be unique"
    ELSE IF Cardinality({labels[j] : j \in DOMAIN labels}) # Len(labels)
    THEN "ValueError: labels must be unique if ordered=True"
    ELSE IF Len(labels) # Len(bins) - 1
    THEN "ValueError: Bin labels must be one fewer than the number of bin edges"
    ELSE ""

\* (mutant) right=False: a value on an edge goes to the bin above it
cut_id_left_closed(x, bins) == Cardinality({j \in DOMAIN bins : bins[j][1] <= x[1]})

\* bins.searchsorted(x, side="left"): the number of edges below x; with
\* include_lowest a value equal to the first edge goes to the first bin.
cut_id(x, bins) ==
    IF x[1] = bins[1][1] THEN 1
    ELSE Cardinality({j \in DOMAIN bins : bins[j][1] < x[1]})

\* (mutant) a value outside the edges is put into the nearest bin
cut_cell_clamped(x, bins, labels) ==
    IF isna(x) THEN NaN
    ELSE LET id == cut_id(x, bins)
         IN IF id = 0 THEN <<labels[1]>>
            ELSE IF id = Len(bins) THEN <<labels[Len(labels)]>>
            ELSE <<labels[id]>>

\* One cell: missing, below the first edge or above the last one gives NaN.
cut_cell(x, bins, labels) ==
    IF isna(x) THEN NaN
    ELSE LET id == cut_id(x, bins)
         IN IF id = 0 \/ id = Len(bins) THEN NaN ELSE <<labels[id]>>

cut(s, bins, labels) ==
    LET e == cut_error(bins, labels)
    IN IF e # "" THEN [exc |-> e, val |-> <<>>]
       ELSE [exc |-> "", val |-> [i \in DOMAIN s |-> cut_cell(s[i], bins, labels)]]

-----------------------------------------------------------------------------
(* src/mentalhealth.py: load_data *)

GenderMap == (0 :> "Female") @@ (1 :> "Male")
SupportMap == (0 :> "No Support") @@ (1 :> "Has Support")
SelfHarmMap == (0 :> "No") @@ (1 :> "Yes")
edu_map ==
    (0 :> "Level 0") @@ (1 :> "Level 1") @@ (2 :> "Level 2") @@
    (3 :> "Level 3") @@ (4 :> "Level 4")
Unknown == "Unknown"

\* (mutant) a missing count is given the label the mappings give it
suicide_flag_unknown(x) ==
    IF isna(x) THEN <<Unknown>> ELSE IF x[1] > 0 THEN <<"Yes">> ELSE <<"No">>

\* lambda x: 'Yes' if x > 0 else 'No'   (NaN > 0 is False)
suicide_flag(x) == IF ~isna(x) /\ x[1] > 0 THEN <<"Yes">> ELSE <<"No">>

bins == <<<<H(0)>>, <<H(4)>>, <<H(7)>>, <<H(10)>>>>
labels == <<"Low (0-4)", "Medium (5-7)", "High (8-10)">>
max_sleep(d) == max(d.col["Sleep_Hours"])
sleep_bins(d) == <<<<H(0)>>, <<H(5)>>, <<H(8)>>, max_sleep(d)>>
sleep_labels == <<"<5 hrs (Deficient)", "5-8 hrs (Adequate)", ">8 hrs (High)">>

\* The derivation steps in the order of the code, each named by the column
\* it assigns, and the raw column each one reads.
Steps ==
    <<"Gender_Label", "Support_Label", "Self_Harm_Label",
      "Suicide_Attempts_Label", "Education_Level_Label",
      "Depression_Severity", "Sleep_Hours_Category">>
StepSource ==
    [Gender_Label |-> "Gender",
     Support_Label |-> "Mental_Health_Support",
     Self_Harm_Label |-> "Self_Harm",
     Suicide_Attempts_Label |-> "Suicide_Attempts",
     Education_Level_Label |-> "Education_Level",
     Depression_Severity |-> "Depression_Score",
     Sleep_Hours_Category |-> "Sleep_Hours"]

\* The right-hand side of one step's assignment, on the frame d.
StepValue(step, d) ==
    CASE step = "Gender_Label" ->
           [exc |-> "", val |-> fillna(map(d.col["Gender"], GenderMap), Unknown)]
      [] step = "Support_Label" ->
           [exc |-> "",
            val |-> fillna(map(d.col["Mental_Health_Support"], SupportMap), Unknown)]
      [] step = "Self_Harm_Label" ->
           [exc |-> "", val |-> fillna(map(d.col["Self_Harm"], SelfHarmMap), Unknown)]
      [] step = "Suicide_Attempts_Label" ->
           [exc |-> "",
            val |-> [i \in DOMAIN d.col["Suicide_Attempts"] |->
                        suicide_flag(d.col["Suicide_Attempts"][i])]]
      [] step = "Education_Level_Label" ->
           [exc |-> "", val |-> fillna(map(d.col["Education_Level"], edu_map), Unknown)]
      [] step = "Depression_Severity" ->
           cut(d.col["Depression_Score"], bins, labels)
      [] step = "Sleep_Hours_Category" ->
           cut(d.col["Sleep_Hours"], sleep_bins(d), sleep_labels)

\* (mutant) the suicide-attempt flag also looks at Self_Harm_Label when an
\* earlier step has already assigned it
DeriveStep_reads_derived(step, r) ==
    IF r.exc # "" THEN r
    ELSE IF StepSource[step] \notin columns(r.df)
    THEN [exc |-> "KeyError", df |-> NoFrame]
    ELSE LET v == StepValue(step, r.df)
         IN IF v.exc # "" THEN [exc |-> v.exc, df |-> NoFrame]
            ELSE IF step = "Suicide_Attempts_Label" /\ "Self_Harm_Label" \in columns(r.df)
            THEN [exc |-> "",
                  df |-> setitem(r.df, step,
                            [i \in DOMAIN v.val |->
                                IF r.df.col["Self_Harm_Label"][i] = <<"Yes">>
                                THEN <<"Yes">> ELSE v.val[i]])]
            ELSE [exc |-> "", df |-> setitem(r.df, step, v.val)]

\* One step applied to the run r = [exc, df]: df[source] raises KeyError when
\* the column is absent, an exception of the right-hand side leaves the
\* function, otherwise the new column is assigned.
DeriveStep(step, r) ==
    IF r.exc # "" THEN r
    ELSE IF StepSource[step] \notin columns(r.df)
    THEN [exc |-> "KeyError", df |-> NoFrame]
    ELSE LET v == StepValue(step, r.df)
         IN IF v.exc # "" THEN [exc |-> v.exc, df |-> NoFrame]
            ELSE [exc |-> "", df |-> setitem(r.df, step, v.val)]

RECURSIVE DeriveAll(_, _)
DeriveAll(steps, r) ==
    IF steps = <<>> THEN r ELSE DeriveAll(Tail(steps), DeriveStep(Head(steps), r))

\* pd.read_csv(path, encoding=...): the source may be absent, its bytes may
\* not decode as UTF-8 (they always decode as Latin-1), its text may not
\* parse; otherwise its table is returned.
read_csv(src, encoding) ==
    IF ~src.exists THEN [exc |-> "FileNotFoundError", df |-> NoFrame]
    ELSE IF encoding = "utf-8" /\ ~src.utf8
    THEN [exc |-> "UnicodeDecodeError", df |-> NoFrame]
    ELSE IF ~src.parses THEN [exc |-> "ParserError", df |-> NoFrame]
    ELSE [exc |-> "", df |-> src.table]

\* load_data(file_path) of mentalhealth.py.  Only FileNotFoundError is
\* caught (st.error, then st.stop); read_csv is called once, with the default
\* encoding.  tried lists the encodings read_csv was called with.
mh_load_data(src) ==
    LET t == read_csv(src, "utf-8")
    IN IF t.exc = "FileNotFoundError"
       THEN [stop |-> TRUE, exc |-> "", df |-> NoFrame, tried |-> <<"utf-8">>,
             errors |-> <<<<"st.error", "file not found">>>>]
       ELSE IF t.exc # ""
       THEN [stop |-> FALSE, exc |-> t.exc, df |-> NoFrame, tried |-> <<"utf-8">>,
             errors |-> <<>>]
       ELSE LET r == DeriveAll(Steps, [exc |-> "", df |-> t.df])
            IN [stop |-> FALSE, exc |-> r.exc, df |-> r.df, tried |-> <<"utf-8">>,
                errors |-> <<>>]

-----------------------------------------------------------------------------
(* Aggregations *)

\* The rows of d whose cells in all the columns keys are present.
notna_rows(d, keys) ==
    {i \in 1..d.n : \A j \in DOMAIN keys : ~isna(d.col[keys[j]][i])}
key_of(d, keys, i) == [j \in DOMAIN keys |-> d.col[keys[j]][i][1]]

\* df.groupby(keys).size() on columns that are not categorical: one entry
\* per combination of key values that occurs; rows with a missing key are
\* dropped.
groupby_size(d, keys) ==
    LET rows == notna_rows(d, keys)
        ks == {key_of(d, keys, i) : i \in rows}
    IN [k \in ks |-> Cardinality({i \in rows : key_of(d, keys, i) = k})]

\* pd.crosstab(a, b): a dense table over the row values that occur and the
\* column values that occur (among the rows where both are present), each
\* cell the number of rows with that pair, 0 where the pair does not occur
\* (fill_value=0); with dropna=True a category that labels no row gets no
\* column.
crosstab(d, a, b) ==
    LET rows == notna_rows(d, <<a, b>>)
        index == {d.col[a][i][1] : i \in rows}
        cols == {d.col[b][i][1] : i \in rows}
    IN [k \in {<<x, y>> : x \in index, y \in cols} |->
           Cardinality({i \in rows : key_of(d, <<a, b>>, i) = k})]

\* Series.mean() of the cells of column m in the rows rs: missing cells are
\* skipped; the mean of no value is NaN.  A mean is the pair <<sum, count>>.
mean(d, m, rs) ==
    LET have == {i \in rs : ~isna(d.col[m][i])}
        RECURSIVE Sum(_)
        Sum(S) == IF S = {} THEN 0
                  ELSE LET i == CHOOSE i \in S : TRUE
                       IN d.col[m][i][1] + Sum(S \ {i})
    IN IF have = {} THEN NaN ELSE <<Sum(have), Cardinality(have)>>

\* df.groupby(key, observed=True)[m].mean(): one entry per key value that
\* occurs.
groupby_mean(d, key, m) ==
    LET rows == notna_rows(d, <<key>>)
        ks == {d.col[key][i][1] : i \in rows}
    IN [k \in ks |-> mean(d, m, {i \in rows : d.col[key][i][1] = k})]

\* df[cols].melt(var_name='Outcome', value_name='Status'): the columns
\* stacked one under the other.
melt(d, cols) ==
    [n |-> d.n * Len(cols),
     col |-> [c \in {"Outcome", "Status"} |->
                [r \in 1..(d.n * Len(cols)) |->
                    LET j == ((r - 1) \div d.n) + 1
                        i == ((r - 1) % d.n) + 1
                    IN IF c = "Outcome" THEN <<cols[j]>> ELSE d.col[cols[j]][i]]]]

\* df[mask]: the rows of keep, in their order.
take(d, keep) ==
    LET RECURSIVE Pick(_, _)
        Pick(s, i) ==
            IF i > d.n THEN <<>>
            ELSE (IF i \in keep THEN <<s[i]>> ELSE <<>>) \o Pick(s, i + 1)
    IN [n |-> Cardinality(keep), col |-> [k \in columns(d) |-> Pick(d.col[k], 1)]]

\* df[df[c] > v]: the rows whose cell is present and greater than v.
filter_gt(d, c, v) ==
    take(d, {i \in 1..d.n : ~isna(d.col[c][i]) /\ d.col[c][i][1] > v})

-----------------------------------------------------------------------------
(* src/mentalhealth.py: the three tabs.  A plotly express call raises        *)
(* ValueError when a column it is given is no column of the frame; df[c]     *)
(* and groupby(c) raise KeyError.  Each tab yields the chart data it got to  *)
(* show and the exception that ended it ("" when none).                      *)

plot(d, cols) == [j \in DOMAIN cols |-> d.col[cols[j]]]

heatmap_data(d) == crosstab(d, "Education_Level_Label", "Depression_Severity")

tab1(d) ==
    LET fig1_1 == "1.1" :> plot(d, <<"Gender_Label", "Depression_Score">>)
    IN IF "Age" \notin columns(d) THEN [exc |-> "ValueError", page |-> fig1_1]
       ELSE [exc |-> "",
             page |-> fig1_1 @@ ("1.2" :> plot(d, <<"Age", "Depression_Score">>))
                             @@ ("1.3" :> heatmap_data(d))]

agg_df_sleep(d) == groupby_mean(d, "Sleep_Hours_Category", "Nervous_Level")
agg_df_eating(d) == groupby_mean(d, "SocialMedia_WhileEating", "Low_Energy")

tab2(d) ==
    IF "SocialMedia_Hours" \notin columns(d) THEN [exc |-> "ValueError", page |-> <<>>]
    ELSE LET fig2_1 == "2.1" :> plot(d, <<"SocialMedia_Hours", "Depression_Score">>)
         IN IF "Nervous_Level" \notin columns(d)
            THEN [exc |-> "KeyError", page |-> fig2_1]
            ELSE IF {"SocialMedia_WhileEating", "Low_Energy"} \subseteq columns(d)
            THEN [exc |-> "",
                  page |-> fig2_1 @@ ("2.2" :> agg_df_sleep(d))
                                  @@ ("2.3" :> agg_df_eating(d))]
            ELSE [exc |-> "KeyError", page |-> fig2_1 @@ ("2.2" :> agg_df_sleep(d))]

melted_df(d) == melt(d, <<"Self_Harm_Label", "Suicide_Attempts_Label">>)
count_df(d) == groupby_size(melted_df(d), <<"Outcome", "Status">>)
count_support_df(d) == groupby_size(d, <<"Depression_Type", "Support_Label">>)
high_depression_df(d) == filter_gt(d, "Depression_Score", H(7))
\* value_counts(): the number of rows per value that occurs.
coping_method_counts(d) == groupby_size(high_depression_df(d), <<"Coping_Methods">>)

tab3(d) ==
    LET fig3_1 == "3.1" :> count_df(d)
    IN IF "Depression_Type" \notin columns(d) THEN [exc |-> "KeyError", page |-> fig3_1]
       ELSE IF "Coping_Methods" \notin columns(d)
       THEN [exc |-> "KeyError", page |-> fig3_1 @@ ("3.2" :> count_support_df(d))]
       ELSE [exc |-> "",
             page |-> fig3_1 @@ ("3.2" :> count_support_df(d))
                             @@ ("3.3" :> coping_method_counts(d))]

MentalHealth == "mentalhealth.py"

\* df = load_data(DATA_FILE)
MhLoadData ==
    /\ script = MentalHealth /\ pc = "load_data"
    /\ LET r == mh_load_data(source)
       IN /\ df' = r.df
          /\ exc' = r.exc
          /\ errors' = errors \o r.errors
          /\ tried' = r.tried
          /\ pc' = IF r.stop THEN "stopped" ELSE IF r.exc # "" THEN "raised" ELSE "tab1"
    /\ UNCHANGED <<script, source, arts_df, page, pending>>

\* A "with tabN:" block got as far as r says.
Shown(r, next) ==
    /\ page' = r.page @@ page
    /\ exc' = r.exc
    /\ pc' = IF r.exc # "" THEN "raised" ELSE next
    /\ UNCHANGED <<script, source, df, arts_df, tried, errors, pending>>

MhTab1 ==
    /\ script = MentalHealth /\ pc = "tab1"
    /\ Shown(tab1(df), "tab2")

MhTab2 ==
    /\ script = MentalHealth /\ pc = "tab2"
    /\ Shown(tab2(df), "tab3")

MhTab3 ==
    /\ script = MentalHealth /\ pc = "tab3"
    /\ Shown(tab3(df), "done")

NextMh == MhLoadData \/ MhTab1 \/ MhTab2 \/ MhTab3

-----------------------------------------------------------------------------
(* src/app.py *)

FACULTY_COL == "Faculty"
GENDER_COL == "Gender"
COACHING_COL == "Did you ever attend a Coaching center?"
MEDIUM_COL == "H.S.C or Equivalent study medium"
GPA_HSC_COL == "H.S.C (GPA)"
GPA_SSC_COL == "S.S.C (GPA)"
EXPECTATION_COL == "Q5 [To what extent your expectation was met?]"

\* str.strip() on the header spellings the model uses: a header with a
\* trailing blank loses it.
Stripped == ("Gender " :> GENDER_COL) @@ ("Faculty " :> FACULTY_COL)
strip(name) == IF name \in DOMAIN Stripped THEN Stripped[name] ELSE name

\* df.columns = df.columns.str.strip()
strip_columns(d) ==
    [n |-> d.n,
     col |-> [c \in {strip(h) : h \in columns(d)} |->
                d.col[CHOOSE h \in columns(d) : strip(h) = c]]]

\* str.lower() on the cell texts the model uses.
Lowered == ("Arts" :> "arts") @@ ("Science" :> "science") @@ ("Yes" :> "yes") @@ ("No" :> "no")
lower(text) == IF text \in DOMAIN Lowered THEN Lowered[text] ELSE text
\* astype(str): the missing cell becomes the text 'nan'.
astype_str(x) == IF isna(x) THEN "nan" ELSE x[1]

\* DataFrame.empty: no rows or no columns.
empty(d) == d.n = 0 \/ columns(d) = {}

\* load_data(data_url) of app.py: any exception of read_csv is caught, shown
\* with st.error, and pd.DataFrame() is returned.
app_load_data(src) ==
    LET t == read_csv(src, "utf-8")
    IN IF t.exc # ""
       THEN [df |-> NoFrame, tried |-> <<"utf-8">>,
             errors |-> <<<<"st.error", "An error occurred while loading data">>>>]
       ELSE [df |-> strip_columns(t.df), tried |-> <<"utf-8">>, errors |-> <<>>]

\* Series.value_counts(): one row per value that occurs, the most frequent
\* first, equally frequent values in the order of their first row.
value_counts(s) ==
    LET present == {i \in DOMAIN s : ~isna(s[i])}
        count(v) == Cardinality({i \in present : s[i][1] = v})
        first(v) == CHOOSE i \in present :
                        s[i][1] = v /\ \A j \in present : s[j][1] = v => i <= j
        RECURSIVE Ordered(_)
        Ordered(V) ==
            IF V = {} THEN <<>>
            ELSE LET top == CHOOSE v \in V : \A w \in V \ {v} :
                                \/ count(v) > count(w)
                                \/ count(v) = count(w) /\ first(v) < first(w)
                 IN <<[value |-> top, count |-> count(top)]>> \o Ordered(V \ {top})
    IN Ordered({s[i][1] : i \in present})

\* Series.sort_index() of a value_counts(): by value, ascending.
sort_index(vc) ==
    LET RECURSIVE Sorted(_)
        Sorted(R) ==
            IF R = {} THEN <<>>
            ELSE LET least == CHOOSE r \in R : \A q \in R : r.value <= q.value
                 IN <<least>> \o Sorted(R \ {least})
    IN Sorted({vc[j] : j \in DOMAIN vc})

RECURSIVE total(_)
total(vc) == IF vc = <<>> THEN 0 ELSE Head(vc).count + total(Tail(vc))

\* Lines 38-45: the frame of the gender charts.
arts_rows(d) == {i \in 1..d.n : lower(astype_str(d.col[FACULTY_COL][i])) = "arts"}
prepare(d) ==
    IF FACULTY_COL \in columns(d)
    THEN IF arts_rows(d) = {}
         THEN [arts_df |-> d, errors |-> <<<<"st.warning", "No 'Arts' entries found">>>>]
         ELSE [arts_df |-> take(d, arts_rows(d)), errors |-> <<>>]
    ELSE [arts_df |-> d, errors |-> <<<<"st.warning", "Column 'Faculty' not found">>>>]

\* Each section yields what it showed (page), the notice of an absent column
\* (errors) and the exception that ended it ("" when none).
absent(c) == [exc |-> "", page |-> <<>>, errors |-> <<<<"st.info: missing column", c>>>>]
shown(at, data) == [exc |-> "", page |-> at :> data, errors |-> <<>>]
raised(e) == [exc |-> e, page |-> <<>>, errors |-> <<>>]

\* 1. Gender distribution: nothing is drawn when gender_counts is empty.
section1(a) ==
    IF GENDER_COL \notin columns(a) THEN absent(GENDER_COL)
    ELSE LET gender_counts == value_counts(a.col[GENDER_COL])
         IN IF gender_counts = <<>> THEN [exc |-> "", page |-> <<>>, errors |-> <<>>]
            ELSE shown("1", [counts |-> gender_counts,
                             dominant_gender |-> gender_counts[1].value,
                             dominant_percentage |->
                                 <<gender_counts[1].count * 100, total(gender_counts)>>])

\* 2. Coaching: yes_count / total_count is a numpy division, nan for 0 / 0.
\* str.contains('yes') on the lowered texts the model uses: 'yes' itself.
contains_yes(vc) == SelectSeq(vc, LAMBDA r : lower(astype_str(<<r.value>>)) = "yes")
section2(d) ==
    IF COACHING_COL \notin columns(d) THEN absent(COACHING_COL)
    ELSE LET coaching_counts == value_counts(d.col[COACHING_COL])
             yes_count == total(contains_yes(coaching_counts))
             total_count == total(coaching_counts)
         IN shown("2", [counts |-> coaching_counts,
                        yes_percentage |-> IF total_count = 0 THEN NaN
                                           ELSE <<yes_count * 100, total_count>>])

\* 3. Study medium: iloc[0] of an empty table raises IndexError.
section3(d) ==
    IF MEDIUM_COL \notin columns(d) THEN absent(MEDIUM_COL)
    ELSE LET study_medium_counts == value_counts(d.col[MEDIUM_COL])
         IN IF study_medium_counts = <<>> THEN raised("IndexError")
            ELSE shown("3", [counts |-> study_medium_counts,
                             dominant_medium |-> study_medium_counts[1].value,
                             last_medium |->
                                 study_medium_counts[Len(study_medium_counts)].value])

\* 4. The two GPA histograms (of the rows with a GPA) and the mean GPAs.
gpa(d, c, at) ==
    IF c \notin columns(d) THEN absent(c)
    ELSE shown(at, [x |-> take(d, notna_rows(d, <<c>>)).col[c],
                    mean |-> mean(d, c, 1..d.n)])
section4(d) ==
    LET hsc == gpa(d, GPA_HSC_COL, "4 H.S.C")
        ssc == gpa(d, GPA_SSC_COL, "4 S.S.C")
    IN [exc |-> "", page |-> hsc.page @@ ssc.page, errors |-> hsc.errors \o ssc.errors]

\* 5. Expectation: idxmax() of an empty Count column raises ValueError.
section5(d) ==
    IF EXPECTATION_COL \notin columns(d) THEN absent(EXPECTATION_COL)
    ELSE LET expectation_met_counts == sort_index(value_counts(d.col[EXPECTATION_COL]))
             idxmax == CHOOSE j \in DOMAIN expectation_met_counts :
                           \A k \in DOMAIN expectation_met_counts :
                               \/ expectation_met_counts[k].count < expectation_met_counts[j].count
                               \/ /\ expectation_met_counts[k].count = expectation_met_counts[j].count
                                  /\ j <= k
         IN IF expectation_met_counts = <<>> THEN raised("ValueError")
            ELSE shown("5", [counts |-> expectation_met_counts,
                             highest_rated_score |-> expectation_met_counts[idxmax].value])

App == "app.py"

\* df = load_data(url); if df.empty: st.stop()
AppLoadData ==
    /\ script = App /\ pc = "load_data"
    /\ LET r == app_load_data(source)
       IN /\ df' = r.df
          /\ tried' = r.tried
          /\ errors' = errors \o r.errors
          /\ pc' = IF empty(r.df) THEN "stopped" ELSE "prepare"
    /\ UNCHANGED <<script, source, arts_df, exc, page, pending>>

\* The preview and the choice of arts_df.
AppPrepare ==
    /\ script = App /\ pc = "prepare"
    /\ arts_df' = prepare(df).arts_df
    /\ errors' = errors \o prepare(df).errors
    /\ pc' = "section1"
    /\ UNCHANGED <<script, source, df, tried, exc, page, pending>>

\* A section ran as r says.
Section(r, next) ==
    /\ page' = r.page @@ page
    /\ errors' = errors \o r.errors
    /\ exc' = r.exc
    /\ pc' = IF r.exc # "" THEN "raised" ELSE next
    /\ UNCHANGED <<script, source, df, arts_df, tried, pending>>

AppSection1 ==
    /\ script = App /\ pc = "section1"
    /\ Section(section1(arts_df), "section2")

AppSection2 ==
    /\ script = App /\ pc = "section2"
    /\ Section(section2(df), "section3")

AppSection3 ==
    /\ script = App /\ pc = "section3"
    /\ Section(section3(df), "section4")

AppSection4 ==
    /\ script = App /\ pc = "section4"
    /\ Section(section4(df), "section5")

AppSection5 ==
    /\ script = App /\ pc = "section5"
    /\ Section(section5(df), "complete")

\* st.success("Dashboard analysis complete!")
AppComplete ==
    /\ script = App /\ pc = "complete"
    /\ pc' = "done"
    /\ page' = ("success" :> "Dashboard analysis complete!") @@ page
    /\ UNCHANGED <<script, source, df, arts_df, tried, exc, errors, pending>>

NextApp ==
    \/ AppLoadData \/ AppPrepare \/ AppSection1 \/ AppSection2 \/ AppSection3
    \/ AppSection4 \/ AppSection5 \/ AppComplete

-----------------------------------------------------------------------------
(* Datasets *)

Codes == {NaN} \cup {<<k>> : k \in 0..MaxCode}
Counts == {NaN} \cup {<<k>> : k \in (0 - 1)..MaxCode}
Grid == {NaN} \cup {<<h>> : h \in (0 - H(1))..H(MaxVal)}

MhCoded ==
    {"Gender", "Mental_Health_Support", "Self_Harm", "Education_Level",
     "Depression_Type", "Coping_Methods", "SocialMedia_WhileEating"}
MhMeasured ==
    {"Depression_Score", "Sleep_Hours", "Nervous_Level", "Low_Energy", "Age",
     "SocialMedia_Hours"}
MhColumns == MhCoded \cup MhMeasured \cup {"Suicide_Attempts"}

Domain(c) == IF c \in MhCoded THEN Codes ELSE IF c \in MhMeasured THEN Grid ELSE Counts

\* An unremarkable respondent: every cell present, every code mapped, the
\* scores inside their bins, nine hours of sleep.
Typical ==
    [Gender |-> <<0>>, Mental_Health_Support |-> <<1>>, Self_Harm |-> <<0>>,
     Education_Level |-> <<2>>, Depression_Type |-> <<1>>, Coping_Methods |-> <<1>>,
     SocialMedia_WhileEating |-> <<1>>, Suicide_Attempts |-> <<0>>,
     Depression_Score |-> <<H(5)>>, Sleep_Hours |-> <<H(9)>>,
     Nervous_Level |-> <<H(3)>>, Low_Energy |-> <<H(2)>>, Age |-> <<H(20)>>,
     SocialMedia_Hours |-> <<H(3)>>]

\* The table of n respondents whose columns given by t hold the cells of t
\* and whose other columns hold the typical cell.
Table(n, t) ==
    [n |-> n,
     col |-> [c \in MhColumns |->
                IF c \in DOMAIN t THEN t[c] ELSE [i \in 1..n |-> Typical[c]]]]

File(table) == [exists |-> TRUE, utf8 |-> TRUE, parses |-> TRUE, table |-> table]

InitRun(s, src) ==
    /\ script = s
    /\ source = src
    /\ pc = "load_data"
    /\ df = NoFrame
    /\ arts_df = NoFrame
    /\ tried = <<>>
    /\ exc = ""
    /\ errors = <<>>
    /\ page = <<>>
    /\ pending = {}

\* mentalhealth.py on a readable file in which one coded column (or the
\* count column) takes every combination of cells.
Init ==
    \E c \in MhCoded \cup {"Suicide_Attempts"} : \E n \in 0..MaxRows :
        \E cells \in [1..n -> Domain(c)] :
            InitRun(MentalHealth, File(Table(n, c :> cells)))

Next == NextMh
Spec == Init /\ [][Next]_vars

-----------------------------------------------------------------------------
(* Properties of the label mappings *)

\* load_data returned a frame: the script is past it and was not stopped.
Loaded == script = MentalHealth /\ pc \in {"tab1", "tab2", "tab3", "done"}
raw == source.table

MappedColumns ==
    {[code |-> "Gender", label |-> "Gender_Label", table |-> GenderMap],
     [code |-> "Mental_Health_Support", label |-> "Support_Label", table |-> SupportMap],
     [code |-> "Self_Harm", label |-> "Self_Harm_Label", table |-> SelfHarmMap],
     [code |-> "Education_Level", label |-> "Education_Level_Label", table |-> edu_map]}

\* C1: in the frame load_data returns, every mapped column has one label per
\* row of the input, in the input's order: the table's entry for the row's
\* code when the code is a key of the table, 'Unknown' when it is not or the
\* cell is missing; no label is null.
C1_LabelMappingTotal ==
    Loaded =>
        \A m \in MappedColumns :
            /\ df.n = raw.n
            /\ DOMAIN df.col[m.label] = 1..raw.n
            /\ \A i \in 1..raw.n :
                  LET code == raw.col[m.code][i]
                      label == df.col[m.label][i]
                  IN /\ ~isna(label)
                     /\ label = IF ~isna(code) /\ code[1] \in DOMAIN m.table
                                THEN <<m.table[code[1]]>>
                                ELSE <<Unknown>>

\* A returned frame whose first row has a mapped Gender code and whose second
\* row has none: 'Male', then 'Unknown'.
C1_Witness ==
    /\ Loaded
    /\ raw.col["Gender"] = <<<<1>>, NaN>>
    /\ df.col["Gender_Label"] = <<<<"Male">>, <<Unknown>>>>

\* C11: in the frame load_data returns, Suicide_Attempts_Label has one label
\* per row of the input, in the input's order: 'Yes' when the row's count is
\* present and greater than 0, 'No' in every other case (0, a negative count,
\* a missing count); it is never 'Unknown' and never null.
C11_SuicideFlag ==
    Loaded =>
        /\ DOMAIN df.col["Suicide_Attempts_Label"] = 1..raw.n
        /\ \A i \in 1..raw.n :
              LET count == raw.col["Suicide_Attempts"][i]
                  label == df.col["Suicide_Attempts_Label"][i]
              IN /\ label \in {<<"Yes">>, <<"No">>}
                 /\ label = <<"Yes">> <=> (count # NaN /\ count[1] > 0)

\* A returned frame whose first row has a negative count and whose second row
\* has none: 'No' twice.
C11_Witness ==
    /\ Loaded
    /\ raw.col["Suicide_Attempts"] = <<<<0 - 1>>, NaN>>
    /\ df.col["Suicide_Attempts_Label"] = <<<<"No">>, <<"No">>>>

-----------------------------------------------------------------------------
(* Properties of the two binnings *)

\* mentalhealth.py on a readable file in which one of the two binned columns
\* takes every combination of cells of the grid.
InitBins ==
    \E c \in {"Depression_Score", "Sleep_Hours"} : \E n \in 0..MaxRows :
        \E cells \in [1..n -> Grid] :
            InitRun(MentalHealth, File(Table(n, c :> cells)))

SpecBins == InitBins /\ [][NextMh]_vars

\* The two binnings of load_data: the column binned, the column assigned,
\* the edges and the labels of the call.
Binnings ==
    {[of |-> "Depression_Score", to |-> "Depression_Severity",
      edges |-> bins, names |-> labels],
     [of |-> "Sleep_Hours", to |-> "Sleep_Hours_Category",
      edges |-> sleep_bins(raw), names |-> sleep_labels]}

StrictlyIncreasing(b) ==
    /\ \A j \in DOMAIN b : ~isna(b[j])
    /\ \A j \in DOMAIN b : j > 1 => b[j - 1][1] < b[j][1]

\* v lies in the k-th range of the edges b: [b0, b1] for the first range,
\* (b(k-1), bk] for the others.
InRange(v, b, k) ==
    /\ ~isna(v)
    /\ IF k = 1 THEN b[1][1] <= v[1] ELSE b[k][1] < v[1]
    /\ v[1] <= b[k + 1][1]

\* C2: in the frame load_data returns, for each binning, a row carries the
\* k-th label exactly when its value lies in the k-th range, the ranges being
\* right-inclusive with the lowest edge included; so a value on an interior
\* edge is in the lower range, a value equal to the first edge is in the
\* first range, and no row carries two labels.
C2_BinningPartition ==
    Loaded =>
        \A b \in Binnings :
            /\ StrictlyIncreasing(b.edges)
            /\ Len(b.names) = Len(b.edges) - 1
            /\ \A i \in 1..raw.n : \A k \in DOMAIN b.names :
                  (df.col[b.to][i] = <<b.names[k]>>) <=> InRange(raw.col[b.of][i], b.edges, k)
            /\ \A i \in 1..raw.n :
                  Cardinality({k \in DOMAIN b.names : df.col[b.to][i] = <<b.names[k]>>}) <= 1

\* A returned frame with the Depression_Score 0 (the first edge) and the
\* Depression_Score 4 (an interior edge), both 'Low (0-4)'.
C2_Witness ==
    /\ Loaded
    /\ \E i, j \in 1..raw.n :
          /\ raw.col["Depression_Score"][i] = <<H(0)>>
          /\ df.col["Depression_Severity"][i] = <<"Low (0-4)">>
          /\ raw.col["Depression_Score"][j] = <<H(4)>>
          /\ df.col["Depression_Severity"][j] = <<"Low (0-4)">>

\* The value is missing, below the first edge or above the last one.
Unclassifiable(v, b) == isna(v) \/ v[1] < b[1][1] \/ v[1] > b[Len(b)][1]

\* C3: in the frame load_data returns, a row whose binned value is missing or
\* outside [first edge, last edge] carries NaN, which is none of the labels
\* (in particular neither the first nor the last one), and a row carries NaN
\* only in that case.
C3_UnclassifiedExplicit ==
    Loaded =>
        \A b \in Binnings : \A i \in 1..raw.n :
            LET v == raw.col[b.of][i]
                c == df.col[b.to][i]
            IN /\ Unclassifiable(v, b.edges) =>
                    /\ isna(c)
                    /\ \A k \in DOMAIN b.names : c # <<b.names[k]>>
               /\ isna(c) => Unclassifiable(v, b.edges)
               /\ ~isna(c) => c[1] \in {b.names[k] : k \in DOMAIN b.names}

\* A returned frame with a Depression_Score below 0 or above 10 next to a
\* missing one, both unclassified.
C3_Witness ==
    /\ Loaded
    /\ \E i, j \in 1..raw.n :
          /\ isna(raw.col["Depression_Score"][i])
          /\ ~isna(raw.col["Depression_Score"][j])
          /\ raw.col["Depression_Score"][j][1] > H(10)
          /\ isna(df.col["Depression_Severity"][i])
          /\ isna(df.col["Depression_Severity"][j])

\* pd.cut refused the call: load_data ended with its ValueError.
BinningFailed ==
    /\ pc = "raised"
    /\ exc \in {"ValueError: bins must increase monotonically.",
                "ValueError: Bin edges must be unique",
                "ValueError: Bin labels must be one fewer than the number of bin edges"}

\* C4: once load_data has run on a readable file with all its columns, it has
\* failed with pd.cut's ValueError, returning no frame and so no derived
\* column, exactly when a binning's labels are not one fewer than its edges
\* or its edges are not strictly increasing; the label counts and the
\* depression edges being fixed, that is exactly when the top sleep edge
\* max(Sleep_Hours) is not greater than 8.
C4_BinningConfigurationError ==
    (script = MentalHealth /\ pc # "load_data") =>
        LET bad == \E b \in Binnings :
                       \/ Len(b.names) # Len(b.edges) - 1
                       \/ ~StrictlyIncreasing(b.edges)
        IN /\ bad <=> BinningFailed
           /\ bad <=> ~(~isna(max_sleep(raw)) /\ max_sleep(raw)[1] > H(8))
           /\ BinningFailed => df = NoFrame /\ page = <<>>
           /\ ~BinningFailed => {"Depression_Severity", "Sleep_Hours_Category"}
                                    \subseteq columns(df)

\* load_data failed on a table whose greatest Sleep_Hours is exactly 8.
C4_Witness ==
    /\ BinningFailed
    /\ raw.n > 0
    /\ max_sleep(raw) = <<H(8)>>

\* The rows of the returned frame that load_data binned as 'High (8-10)'.
HighSeverity == {i \in 1..df.n : df.col["Depression_Severity"][i] = <<"High (8-10)">>}

\* C13: in the frame load_data returns, a row's Depression_Score is greater
\* than 7 exactly when its Depression_Severity is 'High (8-10)', so the frame
\* chart 3.3 counts coping methods in is the frame of the rows binned as High.
C13_HighDepressionIsHighBin ==
    Loaded =>
        /\ \A i \in 1..df.n :
              LET score == df.col["Depression_Score"][i]
              IN (score # NaN /\ score[1] > H(7)) <=> i \in HighSeverity
        /\ high_depression_df(df) = take(df, HighSeverity)

-----------------------------------------------------------------------------
(* Properties of the aggregations *)

FewCodes == {NaN, <<0>>, <<1>>}
FewScores == {NaN, <<H(3)>>, <<H(6)>>, <<H(9)>>}
Few(c) == IF c \in MhMeasured THEN FewScores ELSE FewCodes

\* The pairs of raw columns behind the aggregated charts 1.3, 3.2, 3.1, 2.2
\* and 2.3.
AggregatedPairs ==
    {<<"Education_Level", "Depression_Score">>,
     <<"Depression_Type", "Mental_Health_Support">>,
     <<"Self_Harm", "Suicide_Attempts">>,
     <<"Sleep_Hours", "Nervous_Level">>,
     <<"SocialMedia_WhileEating", "Low_Energy">>}

\* mentalhealth.py on a readable file in which the two columns behind one
\* aggregated chart take every combination of a few cells: two codes, a low,
\* a middle and a high score, and the missing cell.
InitAgg ==
    \E p \in AggregatedPairs : \E n \in 0..MaxRows :
        \E a \in [1..n -> Few(p[1])] : \E b \in [1..n -> Few(p[2])] :
            InitRun(MentalHealth, File(Table(n, (p[1] :> a) @@ (p[2] :> b))))

SpecAgg == InitAgg /\ [][NextMh]_vars

\* The count aggregations: the chart, the frame grouped and the grouping
\* columns.
CountAggregations ==
    {[chart |-> "1.3", frame |-> df,
      keys |-> <<"Education_Level_Label", "Depression_Severity">>],
     [chart |-> "3.1", frame |-> melted_df(df), keys |-> <<"Outcome", "Status">>],
     [chart |-> "3.2", frame |-> df, keys |-> <<"Depression_Type", "Support_Label">>]}

Aggregate(chart, d) ==
    CASE chart = "1.3" -> heatmap_data(d)
      [] chart = "3.1" -> count_df(d)
      [] chart = "3.2" -> count_support_df(d)

Permuted(d, p) ==
    [n |-> d.n, col |-> [c \in columns(d) |-> [i \in 1..d.n |-> d.col[c][p[i]]]]]

RECURSIVE SumOf(_)
SumOf(t) ==
    IF DOMAIN t = {} THEN 0
    ELSE LET k == CHOOSE k \in DOMAIN t : TRUE
         IN t[k] + SumOf([j \in DOMAIN t \ {k} |-> t[j]])

\* C5: every count aggregation shown has exactly one entry per combination
\* of grouping-key values that occurs in the data, mapped to the number of
\* rows with that combination; no entry has the count 0; the counts add up to
\* the number of rows with no missing key; and every permutation of the rows
\* gives the same table.
C5_CountAggregation ==
    \A a \in CountAggregations :
        a.chart \in DOMAIN page =>
            LET t == page[a.chart]
                rows == notna_rows(a.frame, a.keys)
                occurring == {key_of(a.frame, a.keys, i) : i \in rows}
            IN /\ DOMAIN t = occurring
               /\ \A k \in DOMAIN t :
                     /\ t[k] = Cardinality({i \in rows : key_of(a.frame, a.keys, i) = k})
                     /\ t[k] > 0
               /\ SumOf(t) = Cardinality(rows)
               /\ \A p \in Permutations(1..df.n) : Aggregate(a.chart, Permuted(df, p)) = t

\* The "no data" marker of a mean over no value.
NoData == <<"no data">>

MeanAggregations ==
    {[chart |-> "2.2", key |-> "Sleep_Hours_Category", measure |-> "Nervous_Level"],
     [chart |-> "2.3", key |-> "SocialMedia_WhileEating", measure |-> "Low_Energy"]}

\* C6: every mean aggregation shown gives, for a group of the data whose rows
\* all miss the measure, the "no data" marker and not NaN, and for every
\* other group the mean (sum over count) of the group's present measure
\* values.
C6_MeanNoData ==
    \A a \in MeanAggregations :
        a.chart \in DOMAIN page =>
            \A g \in DOMAIN page[a.chart] :
                LET rows == {i \in notna_rows(df, <<a.key>>) : df.col[a.key][i][1] = g}
                    have == {i \in rows : ~isna(df.col[a.measure][i])}
                IN IF have = {}
                   THEN ~isna(page[a.chart][g]) /\ page[a.chart][g] = NoData
                   ELSE page[a.chart][g] = mean(df, a.measure, rows)

-----------------------------------------------------------------------------
(* Sources of both scripts: absent, unparsable, Latin-1 only, and readable   *)
(* with some columns absent                                                  *)

MaxAbsent == 2      \* columns absent from a readable source

AppColumns ==
    {FACULTY_COL, GENDER_COL, COACHING_COL, MEDIUM_COL, GPA_HSC_COL, GPA_SSC_COL,
     EXPECTATION_COL}

\* Two unremarkable students, taken in turn.
AppTypical(i) ==
    IF i % 2 = 1
    THEN (FACULTY_COL :> <<"Arts">>) @@ (GENDER_COL :> <<"Female">>) @@
         (COACHING_COL :> <<"Yes">>) @@ (MEDIUM_COL :> <<"Bangla">>) @@
         (GPA_HSC_COL :> <<H(5)>>) @@ (GPA_SSC_COL :> <<H(4)>>) @@
         (EXPECTATION_COL :> <<4>>)
    ELSE (FACULTY_COL :> <<"Science">>) @@ (GENDER_COL :> <<"Male">>) @@
         (COACHING_COL :> <<"No">>) @@ (MEDIUM_COL :> <<"English">>) @@
         (GPA_HSC_COL :> <<H(4)>>) @@ (GPA_SSC_COL :> <<H(5)>>) @@
         (EXPECTATION_COL :> <<3>>)

ColumnsOf(s) == IF s = App THEN AppColumns ELSE MhColumns
TypicalCell(s, c, i) == IF s = App THEN AppTypical(i)[c] ELSE Typical[c]

\* The typical table of n rows with the columns cols; with padded, the
\* Gender header is written with a trailing blank.
TypicalTable(s, cols, n, padded) ==
    [n |-> n,
     col |-> [h \in {IF padded /\ c = GENDER_COL THEN "Gender " ELSE c : c \in cols} |->
                [i \in 1..n |-> TypicalCell(s, strip(h), i)]]]

Sources(s) ==
    {[exists |-> FALSE, utf8 |-> TRUE, parses |-> TRUE, table |-> NoFrame],
     [exists |-> TRUE, utf8 |-> TRUE, parses |-> FALSE, table |-> NoFrame]}
    \cup {[exists |-> TRUE, utf8 |-> FALSE, parses |-> TRUE,
           table |-> TypicalTable(s, ColumnsOf(s), n, FALSE)] : n \in 1..MaxRows}
    \cup {File(TypicalTable(s, ColumnsOf(s) \ gone, n, padded)) :
              gone \in {g \in SUBSET ColumnsOf(s) : Cardinality(g) <= MaxAbsent},
              n \in 0..MaxRows, padded \in {p \in BOOLEAN : p => s = App}}

InitLoad == \E s \in {MentalHealth, App} : \E src \in Sources(s) : InitRun(s, src)

NextLoad == NextMh \/ NextApp

SpecLoad == InitLoad /\ [][NextLoad]_vars

-----------------------------------------------------------------------------
(* Properties of loading *)

AfterLoad == pc # "load_data"

\* The source cannot be read or cannot be parsed.
ReadFails == ~source.exists \/ ~source.parses
\* The source is a well-formed table with a header and no rows.
ValidEmpty ==
    /\ source.exists /\ source.utf8 /\ source.parses
    /\ raw.n = 0 /\ columns(raw) # {}
LoadError ==
    \E j \in DOMAIN errors : errors[j][1] = "st.error"

\* C7: after load_data, a source that could not be read or parsed has given
\* a "load failed" result without an exception: an empty frame, an error
\* notice, and the script stopped instead of going on with the frame; and a
\* well-formed source with no rows has not been treated as a load failure:
\* no error notice, the script not stopped, its (empty) frame kept.
C7_LoadFailedDistinct ==
    AfterLoad =>
        /\ ReadFails =>
              /\ pc # "raised" /\ exc = ""
              /\ df = NoFrame /\ LoadError
              /\ pc = "stopped"
        /\ ValidEmpty =>
              /\ ~LoadError
              /\ pc # "stopped"
              /\ columns(df) # {}

\* The source holds a table with rows whose bytes decode as Latin-1 only.
FallbackOnly ==
    /\ source.exists /\ ~source.utf8 /\ source.parses
    /\ raw.n > 0

\* C8: after load_data, the primary encoding was tried first and the fallback
\* only if the source does not decode under the primary; a source that
\* decodes only under the fallback has given its table, with all its rows,
\* and no load failure; and a load failure of a source that exists was
\* reported only after both encodings were tried.
C8_EncodingFallback ==
    AfterLoad =>
        /\ tried # <<>> /\ tried[1] = "utf-8"
        /\ Len(tried) > 1 => tried = <<"utf-8", "latin-1">> /\ ~source.utf8
        /\ FallbackOnly =>
              /\ ~LoadError /\ pc \notin {"stopped", "raised"}
              /\ df.n = raw.n /\ ~empty(df)
        /\ (LoadError /\ source.exists) => tried = <<"utf-8", "latin-1">>

\* The raw columns each derived column and each chart is computed from.
Needs(s) ==
    IF s = App
    THEN ("1" :> {GENDER_COL, FACULTY_COL}) @@ ("2" :> {COACHING_COL}) @@
         ("3" :> {MEDIUM_COL}) @@ ("4 H.S.C" :> {GPA_HSC_COL}) @@
         ("4 S.S.C" :> {GPA_SSC_COL}) @@ ("5" :> {EXPECTATION_COL})
    ELSE ("1.1" :> {"Gender", "Depression_Score"}) @@
         ("1.2" :> {"Age", "Depression_Score"}) @@
         ("1.3" :> {"Education_Level", "Depression_Score"}) @@
         ("2.1" :> {"SocialMedia_Hours", "Depression_Score"}) @@
         ("2.2" :> {"Sleep_Hours", "Nervous_Level"}) @@
         ("2.3" :> {"SocialMedia_WhileEating", "Low_Energy"}) @@
         ("3.1" :> {"Self_Harm", "Suicide_Attempts"}) @@
         ("3.2" :> {"Depression_Type", "Mental_Health_Support"}) @@
         ("3.3" :> {"Depression_Score", "Coping_Methods"})

Present == {strip(h) : h \in columns(raw)}
Gone == ColumnsOf(script) \ Present

\* The source's table with the typical cells in the columns it lacks, and
\* the frame and the page the script gets from that table.
Completed ==
    [n |-> raw.n,
     col |-> [c \in ColumnsOf(script) |->
                IF c \in Present THEN strip_columns(raw).col[c]
                ELSE [i \in 1..raw.n |-> TypicalCell(script, c, i)]]]
CompletedFrame == DeriveAll(Steps, [exc |-> "", df |-> Completed]).df
CompletedPage ==
    IF script = App
    THEN section1(prepare(Completed).arts_df).page @@ section2(Completed).page @@
         section3(Completed).page @@ section4(Completed).page @@
         section5(Completed).page
    ELSE tab1(CompletedFrame).page @@ tab2(CompletedFrame).page @@
         tab3(CompletedFrame).page

\* The notice of an absent column.
Notice(c) ==
    IF c = FACULTY_COL THEN <<"st.warning", "Column 'Faculty' not found">>
    ELSE <<"st.info: missing column", c>>

\* C9: when a script has ended on a readable source with rows that lacks some
\* of the script's columns, it has not been aborted: it ran to its end, each
\* absent column was reported by a notice, every chart whose columns are all
\* present was shown with the data it has when no column is absent, and (in
\* mentalhealth.py) so was every derived column whose raw column is present.
C9_AbsentColumnLocal ==
    (/\ source.exists /\ source.utf8 /\ source.parses /\ raw.n > 0
     /\ Gone # {}
     /\ pc \in {"done", "raised", "stopped"}) =>
        /\ pc = "done"
        /\ \A c \in Gone : \E j \in DOMAIN errors : errors[j] = Notice(c)
        /\ \A chart \in DOMAIN Needs(script) :
              Needs(script)[chart] \subseteq Present =>
                  /\ chart \in DOMAIN page
                  /\ page[chart] = CompletedPage[chart]
        /\ script = MentalHealth =>
              \A step \in DOMAIN StepSource :
                  StepSource[step] \in Present =>
                      /\ step \in columns(df)
                      /\ df.col[step] = CompletedFrame.col[step]

-----------------------------------------------------------------------------
(* The derivation steps of load_data taken in any order *)

AllSteps == {Steps[j] : j \in DOMAIN Steps}

\* One pending step, whichever, is applied to the frame.
Derive ==
    /\ script = MentalHealth /\ pc = "derive"
    /\ \E step \in pending :
          LET r == DeriveStep(step, [exc |-> "", df |-> df])
          IN /\ df' = r.df
             /\ exc' = r.exc
             /\ pc' = IF r.exc # "" THEN "raised" ELSE "derive"
             /\ pending' = pending \ {step}
    /\ UNCHANGED <<script, source, arts_df, tried, errors, page>>

\* read_csv has returned the table of a readable file in which one raw column
\* of a step takes every combination of a few cells; no step has run.
InitSteps ==
    \E c \in {StepSource[s] : s \in AllSteps} : \E n \in 0..MaxRows :
        \E cells \in [1..n -> Few(c)] :
            /\ script = MentalHealth
            /\ source = File(Table(n, c :> cells))
            /\ pc = "derive"
            /\ df = Table(n, c :> cells)
            /\ arts_df = NoFrame
            /\ tried = <<"utf-8">>
            /\ exc = ""
            /\ errors = <<>>
            /\ page = <<>>
            /\ pending = AllSteps

SpecSteps == InitSteps /\ [][Derive]_vars

\* C10: whatever steps have been applied so far, in whatever order, the frame
\* has the input's rows, its raw columns are unchanged, its new columns are
\* exactly those of the applied steps, and each of them holds what its step
\* computes from the raw table alone; so when no step is pending the frame is
\* the one load_data returns, and a step fails in some order only if
\* load_data fails.
C10_StepsIndependent ==
    /\ (script = MentalHealth /\ pc = "derive") =>
          /\ df.n = raw.n
          /\ \A c \in columns(raw) : c \in columns(df) /\ df.col[c] = raw.col[c]
          /\ columns(df) = columns(raw) \cup (AllSteps \ pending)
          /\ \A s \in AllSteps \ pending : df.col[s] = StepValue(s, raw).val
          /\ pending = {} => df = mh_load_data(source).df
    /\ (script = MentalHealth /\ pc = "raised" /\ pending # AllSteps) =>
          mh_load_data(source).exc # ""

\* Every step but the first of the code has been applied, on a table whose
\* Self_Harm codes differ from row to row.
C10_Witness ==
    /\ script = MentalHealth /\ pc = "derive"
    /\ pending = {"Gender_Label"}
    /\ raw.col["Self_Harm"] = <<<<1>>, NaN>>
    /\ df.col["Self_Harm_Label"] = <<<<"Yes">>, <<Unknown>>>>
    /\ df.col["Suicide_Attempts_Label"] = <<<<"No">>, <<"No">>>>

-----------------------------------------------------------------------------
(* app.py on readable sources with rows: some columns absent, one present   *)
(* column holding any cells, missing ones included                           *)

\* The cells a column of the survey can hold: missing, or an answer.
AppCells(c) == {NaN} \cup {AppTypical(i)[c] : i \in 1..2}

\* The typical table of n rows with the columns cols, the column c holding cells.
AppTable(cols, n, c, cells) ==
    [n |-> n,
     col |-> [h \in cols |-> IF h = c THEN cells ELSE [i \in 1..n |-> AppTypical(i)[h]]]]

InitApp ==
    \E gone \in {g \in SUBSET AppColumns : Cardinality(g) <= MaxAbsent} :
        \E n \in 1..MaxRows : \E c \in AppColumns \ gone :
            \E cells \in [1..n -> AppCells(c)] :
                InitRun(App, File(AppTable(AppColumns \ gone, n, c, cells)))

SpecApp == InitApp /\ [][NextApp]_vars

\* C12: on a source with rows, app.py is never stopped and never ended by an
\* exception, so that every section from 1 to 5 runs and the final step is
\* reached; and once arts_df is chosen it is not empty.
C12_SectionsComplete ==
    (script = App /\ ~empty(raw)) =>
        /\ pc \notin {"raised", "stopped"}
        /\ exc = ""
        /\ pc \notin {"load_data", "prepare"} => ~empty(arts_df)

====
